---- MODULE Spec2Model ----
(***************************************************************************)
(* Model of evaluate/llm_handler.py: class LLMHandler.                     *)
(*                                                                         *)
(* Python values are represented as follows.                               *)
(*   str            a TLA+ string (Len, \o and SubSeq act on strings)      *)
(*   Optional[x]    None is <<>>, a present value v is <<v>>               *)
(*   dict           insertion-ordered dicts that the code iterates         *)
(*                  (available_models, model_patterns) are sequences of    *)
(*                  <<key, value>> pairs; dicts that are only indexed      *)
(*                  (os.environ, model_params, kwargs) are functions       *)
(*   float          temperatures are integers in tenths (6 is 0.6)         *)
(*   return/raise   [kind |-> "return", value |-> v] and                   *)
(*                  [kind |-> "raise", value |-> message of ValueError]    *)
(***************************************************************************)
EXTENDS Integers, Sequences, FiniteSets, TLC

VARIABLES
    available_models,   \* self.available_models
    model_patterns,     \* self.model_patterns
    environ,            \* os.environ
    stdout,             \* the lines print() has written
    pc,                 \* per thread: where it stands in get_llm, or "idle"
    call,               \* per thread: the last call made, with its arguments
    frame,              \* per thread: the locals of get_llm
    ret                 \* per thread: the outcome of the last finished call

vars == <<available_models, model_patterns, environ, stdout, pc, call, frame, ret>>

---------------------------------------------------------------------------
(* Bounds of the model. *)

\* get_llm is not started once stdout holds this many notices.
MaxStdout == 2

---------------------------------------------------------------------------
(* Python values. *)

None == <<>>

Some(v) == <<v>>

Return(v) == [kind |-> "return", value |-> v]

Raise(msg) == [kind |-> "raise", value |-> msg]

NoCall == [op |-> "none"]

EmptyDict == [k \in {} |-> None]

\* d with d[k] = v, as the assignment d[k] = v leaves it
DictSet(d, k, v) == [x \in (DOMAIN d) \cup {k} |-> IF x = k THEN v ELSE d[x]]

\* d.pop(k, None)
DictPop(d, k) == [x \in (DOMAIN d) \ {k} |-> d[x]]

\* {**a, **b}
DictMerge(a, b) == [x \in (DOMAIN a) \cup (DOMAIN b) |-> IF x \in DOMAIN b THEN b[x] ELSE a[x]]

UpperLetters == "ABCDEFGHIJKLMNOPQRSTUVWXYZ"

LowerLetters == "abcdefghijklmnopqrstuvwxyz"

\* the character c with the letters of alphabet from replaced by those of to
MapChar(c, from, to) ==
    IF \E i \in 1..Len(from) : SubSeq(from, i, i) = c
    THEN LET i == CHOOSE j \in 1..Len(from) : SubSeq(from, j, j) = c
         IN  SubSeq(to, i, i)
    ELSE c

RECURSIVE MapString(_, _, _)
MapString(s, from, to) ==
    IF Len(s) = 0 THEN ""
    ELSE MapChar(SubSeq(s, 1, 1), from, to) \o MapString(SubSeq(s, 2, Len(s)), from, to)

\* str.lower(), on ASCII
Lower(s) == MapString(s, UpperLetters, LowerLetters)

\* str.upper(), on ASCII
Upper(s) == MapString(s, LowerLetters, UpperLetters)

\* sub in s
Contains(sub, s) ==
    \E i \in 1..(Len(s) - Len(sub) + 1) : SubSeq(s, i, i + Len(sub) - 1) = sub

\* the keys of an insertion-ordered dict
Keys(d) == {d[i][1] : i \in DOMAIN d}

\* d[k] of an insertion-ordered dict
Lookup(d, k) == d[CHOOSE i \in DOMAIN d : d[i][1] = k][2]

\* x in list
InList(x, list) == \E i \in DOMAIN list : list[i] = x

---------------------------------------------------------------------------
(* The tables __init__ builds. *)

InitialAvailableModels ==
    << <<"ollama", <<"llama3.2:3b", "mistral:7b">> >> >>

\* mutant: "r1" is entered before "fireworks"
InitialModelPatternsR1First ==
    << <<"o1", "openai">>,
       <<"o3", "openai">>,
       <<"gpt-4o", "openai">>,
       <<"claude", "anthropic">>,
       <<"mistral-", "mistral">>,
       <<"ministral", "mistral">>,
       <<"gemini", "google">>,
       <<"mixtral", "together">>,
       <<"llama", "ollama">>,
       <<"r1", "together">>,
       <<"fireworks", "fireworks">>,
       <<"deepseek-v3", "together">> >>

InitialModelPatterns ==
    << <<"o1", "openai">>,
       <<"o3", "openai">>,
       <<"gpt-4o", "openai">>,
       <<"claude", "anthropic">>,
       <<"mistral-", "mistral">>,
       <<"ministral", "mistral">>,
       <<"gemini", "google">>,
       <<"mixtral", "together">>,
       <<"llama", "ollama">>,
       <<"fireworks", "fireworks">>,
       <<"r1", "together">>,
       <<"deepseek-v3", "together">> >>

---------------------------------------------------------------------------
(* _detect_provider, _validate_model, get_all_models. *)

ErrNoProvider(model_name) == "Could not detect provider for model name: " \o model_name

ErrProvider(provider) == "Provider " \o provider \o " not supported"

ErrModel(provider, model_name) == "Model " \o model_name \o " not available for " \o provider

RECURSIVE ScanPatterns(_, _, _)
ScanPatterns(patterns, model_name, i) ==
    IF i > Len(patterns) THEN Raise(ErrNoProvider(model_name))
    ELSE IF Contains(patterns[i][1], Lower(model_name)) THEN Return(patterns[i][2])
    ELSE ScanPatterns(patterns, model_name, i + 1)

\* mutant: the scan keeps going and the last matching pattern wins
RECURSIVE ScanPatternsLast(_, _, _)
ScanPatternsLast(patterns, model_name, i) ==
    IF i < 1 THEN Raise(ErrNoProvider(model_name))
    ELSE IF Contains(patterns[i][1], Lower(model_name)) THEN Return(patterns[i][2])
    ELSE ScanPatternsLast(patterns, model_name, i - 1)

DetectProviderLastMatch(patterns, model_name) ==
    ScanPatternsLast(patterns, model_name, Len(patterns))

DetectProvider(patterns, model_name) == ScanPatterns(patterns, model_name, 1)

\* mutant: the model is looked up in every provider's list, the provider is not checked
ValidateModelAnyProvider(models, provider, model_name) ==
    IF \E i \in DOMAIN models : InList(model_name, models[i][2]) THEN Return(TRUE)
    ELSE Raise(ErrModel(provider, model_name))

ValidateModel(models, provider, model_name) ==
    IF provider \notin Keys(models) THEN Raise(ErrProvider(provider))
    ELSE IF ~InList(model_name, Lookup(models, provider)) THEN Raise(ErrModel(provider, model_name))
    ELSE Return(TRUE)

RECURSIVE ExtendAll(_, _)
ExtendAll(models, i) ==
    IF i > Len(models) THEN <<>>
    ELSE models[i][2] \o ExtendAll(models, i + 1)

\* mutant: the loop collects the providers, not their models
GetAllModelsKeys(models) == Return([i \in DOMAIN models |-> models[i][1]])

GetAllModels(models) == Return(ExtendAll(models, 1))

---------------------------------------------------------------------------
(* get_llm: the values it names. *)

\* temperature: float = 0.0, in tenths
DefaultTemperature == 0

\* max_tokens: Optional[int] = 4000
DefaultMaxTokens == 4000

\* model_params["temperature"] = 0.6, in tenths
R1Temperature == 6

OllamaModel == "llama3.1:8b-instruct-q8_0"

OllamaBaseUrl == "http://host.docker.internal:11434/v1"

\* mutant: the provider name is not upper-cased
EnvKeyAsGiven(provider) == provider \o "_API_KEY"

\* f"{provider.upper()}_API_KEY"
EnvKey(provider) == Upper(provider) \o "_API_KEY"

\* if api_key:
Truthy(api_key) == api_key # None /\ api_key[1] # ""

\* {"temperature": temperature, "max_tokens": max_tokens, **kwargs}
InitialParams(temperature, max_tokens, kwargs) ==
    DictMerge([k \in {"temperature", "max_tokens"} |->
                  IF k = "temperature" THEN Some(temperature) ELSE max_tokens],
              kwargs)

\* if ("o1" in model_name) or ("o3" in model_name): model_params.pop("temperature", None)
PopTemperature(model_name, params) ==
    IF Contains("o1", model_name) \/ Contains("o3", model_name)
    THEN DictPop(params, "temperature")
    ELSE params

\* mutant: the r1 rule is an elif of the o1/o3 rule
ForceTemperatureElif(model_name, params) ==
    IF Contains("o1", model_name) \/ Contains("o3", model_name) THEN params
    ELSE IF Contains("r1", model_name)
    THEN DictSet(params, "temperature", Some(6))
    ELSE params

\* if "r1" in model_name: model_params["temperature"] = 0.6
ForceTemperature(model_name, params) ==
    IF Contains("r1", model_name)
    THEN DictSet(params, "temperature", Some(R1Temperature))
    ELSE params

\* {k: v for k, v in model_params.items() if v is not None}
DropNone(params) == [k \in {x \in DOMAIN params : params[x] # None} |-> params[k][1]]

\* model_params as the dispatch receives it
AssembleParams(model_name, temperature, max_tokens, kwargs) ==
    DropNone(ForceTemperature(model_name,
                 PopTemperature(model_name,
                     InitialParams(temperature, max_tokens, kwargs))))

\* a constructed chat model: its class, the arguments the code names, **model_params
Client(cls, named, params) == [cls |-> cls, named |-> named, params |-> params]

Printed(line, client) == [notice |-> <<line>>, result |-> Return(Some(client))]

\* mutant: the ollama branch passes the caller's model_name like the other branches
DispatchModelName(provider, model_name, params) ==
    IF provider = "ollama"
    THEN Printed("Using Ollama",
                 Client("ChatOllama",
                        [k \in {"model", "base_url"} |->
                            IF k = "model" THEN model_name ELSE "http://host.docker.internal:11434/v1"],
                        params))
    ELSE [notice |-> <<>>, result |-> Return(None)]

\* the if/elif chain on provider: the line printed and the value returned;
\* a provider of no branch falls off the end of the function, which returns None
Dispatch(provider, model_name, params) ==
    CASE provider = "anthropic" ->
            Printed("Using Anthropic AI",
                    Client("ChatAnthropic", [k \in {"model_name"} |-> model_name], params))
      [] provider = "mistral" ->
            Printed("Using Mistral AI",
                    Client("ChatMistralAI", [k \in {"model_name"} |-> model_name], params))
      [] provider = "google" ->
            Printed("Using Google Generative AI",
                    Client("ChatGoogleGenerativeAI", [k \in {"model"} |-> model_name], params))
      [] provider = "together" ->
            Printed("Using ChatTogether",
                    Client("ChatTogether", [k \in {"model"} |-> model_name], params))
      [] provider = "openai" ->
            Printed("Using OpenAI",
                    Client("ChatOpenAI", [k \in {"model"} |-> model_name], params))
      [] provider = "fireworks" ->
            Printed("Using Fireworks",
                    Client("ChatFireworks", [k \in {"model"} |-> model_name], params))
      [] provider = "ollama" ->
            Printed("Using Ollama",
                    Client("ChatOllama",
                           [k \in {"model", "base_url"} |->
                               IF k = "model" THEN OllamaModel ELSE OllamaBaseUrl],
                           params))
      [] OTHER -> [notice |-> <<>>, result |-> Return(None)]

---------------------------------------------------------------------------
(* The inputs the calls are made with. *)

ModelNames ==
    { "llama3.2:3b", "mistral:7b", "LLAMA3.2:3B", "gpt-4o", "gpt-4o-mini",
      "o1-2024-12-17", "o3-mini-2025-01-31", "o1-r1", "deepseek-r1-o3",
      "accounts/fireworks/models/deepseek-r1", "deepseek-ai/DeepSeek-R1",
      "deepseek-ai/DeepSeek-V3", "mistral-small-2409", "ministral-8b-2410",
      "claude-3-5-haiku-20241022", "qwen2.5:7b" }

\* the model names get_llm is called with
GetLlmNames ==
    { "llama3.2:3b", "mistral:7b", "LLAMA3.2:3B", "accounts/fireworks/models/deepseek-r1" }

ProviderNames == {"ollama", "openai", "fireworks", "Ollama"}

ProviderArgs == {None, Some("ollama"), Some("openai")}

Temperatures == {DefaultTemperature, R1Temperature, 9}

\* the temperatures get_llm is called with
GetLlmTemperatures == {DefaultTemperature, 9}

MaxTokensArgs == {None, Some(DefaultMaxTokens)}

ApiKeys == {None, Some(""), Some("sk-1"), Some("sk-2")}

KwargsArgs == {EmptyDict, [k \in {"top_p", "stop"} |-> IF k = "top_p" THEN Some(1) ELSE None]}

\* what os.environ may hold when the handler is built
InitialEnvirons == {EmptyDict, [k \in {"OLLAMA_API_KEY"} |-> "sk-0"]}

---------------------------------------------------------------------------
(* State. *)

NoFrame == [provider |-> None, model_params |-> EmptyDict]

Pending == [kind |-> "pending", value |-> None]

InitThreads(threads) ==
    /\ available_models = InitialAvailableModels
    /\ model_patterns = InitialModelPatterns
    /\ environ \in InitialEnvirons
    /\ stdout = <<>>
    /\ pc = [t \in threads |-> "idle"]
    /\ call = [t \in threads |-> NoCall]
    /\ frame = [t \in threads |-> NoFrame]
    /\ ret = [t \in threads |-> Pending]

\* one caller
Init == InitThreads({1})

Finish(t, outcome) ==
    /\ pc' = [pc EXCEPT ![t] = "idle"]
    /\ ret' = [ret EXCEPT ![t] = outcome]

Goto(t, label) ==
    /\ pc' = [pc EXCEPT ![t] = label]
    /\ UNCHANGED ret

\* a call of _detect_provider(model_name)
CallDetectProvider(t, model_name) ==
    /\ pc[t] = "idle"
    /\ call' = [call EXCEPT ![t] = [op |-> "_detect_provider", model_name |-> model_name]]
    /\ frame' = [frame EXCEPT ![t] = NoFrame]
    /\ Finish(t, DetectProvider(model_patterns, model_name))
    /\ UNCHANGED <<available_models, model_patterns, environ, stdout>>

\* a call of _validate_model(provider, model_name)
CallValidateModel(t, provider, model_name) ==
    /\ pc[t] = "idle"
    /\ call' = [call EXCEPT ![t] = [op |-> "_validate_model", provider |-> provider,
                                    model_name |-> model_name]]
    /\ frame' = [frame EXCEPT ![t] = NoFrame]
    /\ Finish(t, ValidateModel(available_models, provider, model_name))
    /\ UNCHANGED <<available_models, model_patterns, environ, stdout>>

\* a call of get_all_models()
CallGetAllModels(t) ==
    /\ pc[t] = "idle"
    /\ call' = [call EXCEPT ![t] = [op |-> "get_all_models"]]
    /\ frame' = [frame EXCEPT ![t] = NoFrame]
    /\ Finish(t, GetAllModels(available_models))
    /\ UNCHANGED <<available_models, model_patterns, environ, stdout>>

\* get_llm is entered with its arguments bound
CallGetLlm(t, model_name, provider, temperature, max_tokens, api_key, kwargs) ==
    /\ pc[t] = "idle"
    /\ Len(stdout) < MaxStdout
    /\ call' = [call EXCEPT ![t] = [op |-> "get_llm", model_name |-> model_name,
                                    provider |-> provider, temperature |-> temperature,
                                    max_tokens |-> max_tokens, api_key |-> api_key,
                                    kwargs |-> kwargs]]
    /\ frame' = [frame EXCEPT ![t] = [provider |-> provider, model_params |-> EmptyDict]]
    /\ pc' = [pc EXCEPT ![t] = "detect"]
    /\ ret' = [ret EXCEPT ![t] = Pending]
    /\ UNCHANGED <<available_models, model_patterns, environ, stdout>>

\* if provider is None: provider = self._detect_provider(model_name)
Detect(t) ==
    /\ pc[t] = "detect"
    /\ LET r == DetectProvider(model_patterns, call[t].model_name)
       IN  IF frame[t].provider # None
           THEN Goto(t, "validate") /\ UNCHANGED frame
           ELSE IF r.kind = "raise"
           THEN Finish(t, r) /\ UNCHANGED frame
           ELSE /\ Goto(t, "validate")
                /\ frame' = [frame EXCEPT ![t].provider = Some(r.value)]
    /\ UNCHANGED <<available_models, model_patterns, environ, stdout, call>>

\* mutant: the api key is written before the model is validated
ValidateAfterKey(t) ==
    /\ pc[t] = "validate"
    /\ LET r == ValidateModel(available_models, frame[t].provider[1], call[t].model_name)
       IN  IF r.kind = "raise" THEN Finish(t, r) ELSE Goto(t, "set_key")
    /\ environ' = IF Truthy(call[t].api_key)
                  THEN DictSet(environ, EnvKey(frame[t].provider[1]), call[t].api_key[1])
                  ELSE environ
    /\ UNCHANGED <<available_models, model_patterns, stdout, call, frame>>

\* self._validate_model(provider, model_name)
Validate(t) ==
    /\ pc[t] = "validate"
    /\ LET r == ValidateModel(available_models, frame[t].provider[1], call[t].model_name)
       IN  IF r.kind = "raise" THEN Finish(t, r) ELSE Goto(t, "set_key")
    /\ UNCHANGED <<available_models, model_patterns, environ, stdout, call, frame>>

\* mutant: os.environ.setdefault, a key already set is kept
SetKeyDefault(t) ==
    /\ pc[t] = "set_key"
    /\ environ' = IF Truthy(call[t].api_key) /\ EnvKey(frame[t].provider[1]) \notin DOMAIN environ
                  THEN DictSet(environ, EnvKey(frame[t].provider[1]), call[t].api_key[1])
                  ELSE environ
    /\ Goto(t, "params")
    /\ UNCHANGED <<available_models, model_patterns, stdout, call, frame>>

\* if api_key: os.environ[f"{provider.upper()}_API_KEY"] = api_key
SetKey(t) ==
    /\ pc[t] = "set_key"
    /\ environ' = IF Truthy(call[t].api_key)
                  THEN DictSet(environ, EnvKey(frame[t].provider[1]), call[t].api_key[1])
                  ELSE environ
    /\ Goto(t, "params")
    /\ UNCHANGED <<available_models, model_patterns, stdout, call, frame>>

\* model_params is assembled, the two temperature rules applied, None values dropped
Params(t) ==
    /\ pc[t] = "params"
    /\ frame' = [frame EXCEPT ![t].model_params =
                    AssembleParams(call[t].model_name, call[t].temperature,
                                   call[t].max_tokens, call[t].kwargs)]
    /\ Goto(t, "dispatch")
    /\ UNCHANGED <<available_models, model_patterns, environ, stdout, call>>

\* the branch of the provider prints its notice and returns the client it constructs
DispatchStep(t) ==
    /\ pc[t] = "dispatch"
    /\ LET d == Dispatch(frame[t].provider[1], call[t].model_name, frame[t].model_params)
       IN  /\ stdout' = stdout \o d.notice
           /\ Finish(t, d.result)
    /\ UNCHANGED <<available_models, model_patterns, environ, call, frame>>

\* the one caller of the sequential specification
Callers == {1}

Next ==
    \/ \E t \in Callers, m \in ModelNames : CallDetectProvider(t, m)
    \/ \E t \in Callers, p \in ProviderNames, m \in ModelNames : CallValidateModel(t, p, m)
    \/ \E t \in Callers : CallGetAllModels(t)
    \/ \E t \in Callers, m \in GetLlmNames, p \in ProviderArgs, temp \in GetLlmTemperatures,
          mt \in MaxTokensArgs, k \in ApiKeys, kw \in KwargsArgs :
             CallGetLlm(t, m, p, temp, mt, k, kw)
    \/ \E t \in Callers : Detect(t)
    \/ \E t \in Callers : Validate(t)
    \/ \E t \in Callers : SetKey(t)
    \/ \E t \in Callers : Params(t)
    \/ \E t \in Callers : DispatchStep(t)

Spec == Init /\ [][Next]_vars

---------------------------------------------------------------------------
(* Two threads in get_llm at once: the steps of the two calls interleave;  *)
(* os.environ and stdout are the state they share.                         *)

SharedNames == {"llama3.2:3b", "mistral:7b"}

SharedProviderArgs == {None, Some("ollama")}

SharedApiKeys == {None, Some("sk-1"), Some("sk-2")}

Threads == {1, 2}

InitShared == InitThreads(Threads)

NextShared ==
    \/ \E t \in Threads, m \in SharedNames, p \in SharedProviderArgs, k \in SharedApiKeys :
           CallGetLlm(t, m, p, DefaultTemperature, Some(DefaultMaxTokens), k, EmptyDict)
    \/ \E t \in Threads : Detect(t)
    \/ \E t \in Threads : Validate(t)
    \/ \E t \in Threads : SetKey(t)
    \/ \E t \in Threads : Params(t)
    \/ \E t \in Threads : DispatchStep(t)

SpecShared == InitShared /\ [][NextShared]_vars

---------------------------------------------------------------------------
(* The assembly of model_params alone, on every input: in get_llm it is    *)
(* reached only by the model names the catalog lists.                      *)

EvalAssembleParams(t, model_name, temperature, max_tokens, kwargs) ==
    /\ pc[t] = "idle"
    /\ call' = [call EXCEPT ![t] = [op |-> "model_params", model_name |-> model_name,
                                    temperature |-> temperature, max_tokens |-> max_tokens,
                                    kwargs |-> kwargs]]
    /\ frame' = [frame EXCEPT ![t] = NoFrame]
    /\ Finish(t, Return(AssembleParams(model_name, temperature, max_tokens, kwargs)))
    /\ UNCHANGED <<available_models, model_patterns, environ, stdout>>

NextParams ==
    \E t \in Callers, m \in ModelNames, temp \in Temperatures,
       mt \in MaxTokensArgs, kw \in KwargsArgs :
          EvalAssembleParams(t, m, temp, mt, kw)

SpecParams == Init /\ [][NextParams]_vars

---------------------------------------------------------------------------
(* Properties. *)

IsRaise(r, msg) == r.kind = "raise" /\ r.value = msg

IsReturn(r) == r.kind = "return"

\* thread t has finished a call of op and its outcome stands in ret[t]
Finished(t, op) == pc[t] = "idle" /\ call[t].op = op

\* thread t is inside get_llm
InGetLlm(t) == pc[t] # "idle"

\* get_llm of thread t returned a constructed client
ReturnedClient(t) == Finished(t, "get_llm") /\ IsReturn(ret[t]) /\ ret[t].value # None

\* the patterns in the order they are authored
AuthoredPatterns ==
    <<"o1", "o3", "gpt-4o", "claude", "mistral-", "ministral", "gemini", "mixtral",
      "llama", "fireworks", "r1", "deepseek-v3">>

\* the indices of the patterns that occur in the lower-cased name
Hits(model_name) ==
    {i \in DOMAIN AuthoredPatterns : Contains(AuthoredPatterns[i], Lower(model_name))}

\* C1: _detect_provider returns the provider of the first pattern, in the authored
\* order, that is a substring of the lower-cased model name, and raises the
\* "could not detect provider" error when no pattern occurs in it.
C1_DetectFirstMatch ==
    /\ [i \in DOMAIN model_patterns |-> model_patterns[i][1]] = AuthoredPatterns
    /\ \A t \in DOMAIN pc :
          Finished(t, "_detect_provider") =>
             LET hits == Hits(call[t].model_name)
             IN  IF hits = {}
                 THEN IsRaise(ret[t], ErrNoProvider(call[t].model_name))
                 ELSE LET first == CHOOSE i \in hits : \A j \in hits : i <= j
                      IN  /\ IsReturn(ret[t])
                          /\ ret[t].value = model_patterns[first][2]

\* C1 witness: a name in which two patterns occur ("fireworks" and "r1") has been
\* resolved to the provider of the earlier one.
C1_Witness ==
    \E t \in DOMAIN pc :
       /\ Finished(t, "_detect_provider")
       /\ call[t].model_name = "accounts/fireworks/models/deepseek-r1"
       /\ Cardinality(Hits(call[t].model_name)) = 2
       /\ ret[t] = Return("fireworks")

\* the step just taken is a call of _validate_model by thread t
ValidateCallStep(t) ==
    /\ pc[t] = "idle" /\ pc'[t] = "idle"
    /\ call'[t].op = "_validate_model"
    /\ <<call[t], ret[t]>> # <<call'[t], ret'[t]>>

C2_Outcome(t) ==
    LET provider == call[t].provider
        model_name == call[t].model_name
    IN  IF \A i \in DOMAIN available_models : available_models[i][1] # provider
        THEN IsRaise(ret[t], ErrProvider(provider))
        ELSE IF \A i \in DOMAIN available_models :
                   available_models[i][1] = provider
                      => \A j \in DOMAIN available_models[i][2] :
                            available_models[i][2][j] # model_name
        THEN IsRaise(ret[t], ErrModel(provider, model_name))
        ELSE IsReturn(ret[t]) /\ ret[t].value = TRUE

C2_Examples(t) ==
    /\ (call[t].provider = "ollama" /\ call[t].model_name = "llama3.2:3b")
          => IsReturn(ret[t])
    /\ (call[t].provider = "ollama" /\ call[t].model_name = "gpt-4o")
          => IsRaise(ret[t], "Model gpt-4o not available for ollama")

\* C2: _validate_model ends in one of three ways: the unsupported-provider error
\* when the provider is no key of the catalog, the unsupported-model error when
\* the model is not in the provider's list, True otherwise; and a call of it
\* leaves the catalog, the pattern table and os.environ as they were.
C2_ValidateOutcomes ==
    /\ [](\A t \in DOMAIN pc :
             Finished(t, "_validate_model") => C2_Outcome(t) /\ C2_Examples(t))
    /\ [][\A t \in DOMAIN pc :
             ValidateCallStep(t) =>
                UNCHANGED <<available_models, model_patterns, environ, stdout>>]_vars

\* C2 witness: _validate_model("ollama", "gpt-4o") has raised the unsupported-model
\* error.
C2_Witness ==
    \E t \in DOMAIN pc :
       /\ Finished(t, "_validate_model")
       /\ call[t].provider = "ollama"
       /\ call[t].model_name = "gpt-4o"
       /\ IsRaise(ret[t], ErrModel("ollama", "gpt-4o"))

\* the key a get_llm call was given, when it is one the code writes
KeyOf(t) == call[t].api_key[1]

\* C3, as claimed: after a get_llm call that was given an api_key for provider P,
\* os.environ[P.upper() + "_API_KEY"] holds that key.
C3_Original ==
    \A t \in DOMAIN pc :
       (Finished(t, "get_llm") /\ call[t].api_key # None /\ frame[t].provider # None) =>
          LET name == Upper(frame[t].provider[1]) \o "_API_KEY"
          IN  name \in DOMAIN environ /\ environ[name] = KeyOf(t)

\* the step just taken is the api-key write of thread t
KeyWriteStep(t) ==
    /\ pc[t] = "set_key" /\ pc'[t] = "params"
    /\ call[t].api_key # None /\ call[t].api_key[1] # ""

\* C3, amended: once a get_llm call given a non-empty api_key has passed
\* detection and validation (which only provider "ollama" does) and made its
\* write, OLLAMA_API_KEY holds exactly that key until the call returns; os.environ
\* changes in no other step than such a write, so the value stays until a later
\* get_llm call overwrites it; a call with an empty key, or one that detection or
\* validation rejects, writes nothing, and OPENAI_API_KEY is never set.
C3_KeyWritten ==
    /\ [](\A t \in DOMAIN pc :
             ((pc[t] \in {"params", "dispatch"} \/ ReturnedClient(t))
                 /\ call[t].api_key # None /\ KeyOf(t) # "") =>
                /\ frame[t].provider = Some("ollama")
                /\ "OLLAMA_API_KEY" \in DOMAIN environ
                /\ environ["OLLAMA_API_KEY"] = KeyOf(t))
    /\ []("OPENAI_API_KEY" \notin DOMAIN environ)
    /\ [][environ' # environ =>
             \E t \in DOMAIN pc :
                /\ KeyWriteStep(t)
                /\ DOMAIN environ' = DOMAIN environ \cup {"OLLAMA_API_KEY"}
                /\ \A k \in DOMAIN environ : k # "OLLAMA_API_KEY" => environ'[k] = environ[k]]_vars

\* C3 witness: get_llm("llama3.2:3b", api_key="sk-1") has returned the second client
\* constructed so far, and OLLAMA_API_KEY holds exactly "sk-1".
C3_Witness ==
    \E t \in DOMAIN pc :
       /\ ReturnedClient(t)
       /\ call[t].model_name = "llama3.2:3b"
       /\ call[t].api_key = Some("sk-1")
       /\ Len(stdout) = 2
       /\ environ = [k \in {"OLLAMA_API_KEY"} |-> "sk-1"]

\* the model name holds "o1" or "o3", and "r1"
BothRules(model_name) ==
    /\ Contains("o1", model_name) \/ Contains("o3", model_name)
    /\ Contains("r1", model_name)

FireworksR1 == "accounts/fireworks/models/deepseek-r1"

\* get_llm(FireworksR1) without a provider has ended
FireworksR1Ended(t) ==
    /\ Finished(t, "get_llm")
    /\ call[t].model_name = FireworksR1
    /\ call[t].provider = None

\* C5, as claimed: get_llm("accounts/fireworks/models/deepseek-r1") without a
\* provider resolves to "fireworks" and returns a fireworks client whose
\* parameters have temperature 0.6.
C5_Original ==
    \A t \in DOMAIN pc :
       FireworksR1Ended(t) =>
          /\ frame[t].provider = Some("fireworks")
          /\ ReturnedClient(t)
          /\ ret[t].value[1].cls = "ChatFireworks"
          /\ "temperature" \in DOMAIN ret[t].value[1].params
          /\ ret[t].value[1].params["temperature"] = 6

\* C5, amended: get_llm("accounts/fireworks/models/deepseek-r1") without a
\* provider resolves to "fireworks" (the "fireworks" pattern precedes "r1", so not
\* "together"), and, "fireworks" being no key of the catalog, ends with the
\* unsupported-provider error: no parameters are assembled, nothing is printed
\* and no client is constructed.
C5_FireworksRejected ==
    /\ [](\A t \in DOMAIN pc :
             FireworksR1Ended(t) =>
                /\ frame[t].provider = Some("fireworks")
                /\ IsRaise(ret[t], "Provider fireworks not supported")
                /\ frame[t].model_params = EmptyDict)
    /\ [][\A t \in DOMAIN pc :
             (InGetLlm(t) /\ call[t].model_name = FireworksR1 /\ call[t].provider = None) =>
                /\ UNCHANGED <<environ, stdout>>
                /\ pc'[t] \in {"validate", "idle"}]_vars

\* C5 witness: the call, made with temperature 0.9 and an api key, has ended in the
\* unsupported-provider error.
C5_Witness ==
    \E t \in DOMAIN pc :
       /\ FireworksR1Ended(t)
       /\ call[t].temperature = 9
       /\ call[t].api_key = Some("sk-1")
       /\ frame[t].provider = Some("fireworks")
       /\ ret[t].kind = "raise"

\* C6, as claimed: a get_llm call for provider "ollama" returns a client with the
\* fixed model and endpoint, and nothing it does depends on the api_key: no step of
\* the call changes os.environ.
C6_Original ==
    /\ [](\A t \in DOMAIN pc :
             (ReturnedClient(t) /\ frame[t].provider = Some("ollama")) =>
                /\ ret[t].value[1].named["model"] = "llama3.1:8b-instruct-q8_0"
                /\ ret[t].value[1].named["base_url"] = "http://host.docker.internal:11434/v1")
    /\ [][\A t \in DOMAIN pc :
             (InGetLlm(t) /\ frame[t].provider = Some("ollama")) => environ' = environ]_vars

\* the parameters a client gets from temperature, max_tokens and kwargs alone
PlainParams(t) ==
    LET given == [k \in {"temperature", "max_tokens"} \cup DOMAIN call[t].kwargs |->
                     IF k \in DOMAIN call[t].kwargs THEN call[t].kwargs[k]
                     ELSE IF k = "temperature" THEN <<call[t].temperature>>
                     ELSE call[t].max_tokens]
    IN  [k \in {x \in DOMAIN given : given[x] # <<>>} |-> given[k][1]]

\* C6, amended: a get_llm call for provider "ollama" returns a ChatOllama client
\* with the fixed model "llama3.1:8b-instruct-q8_0" and the fixed endpoint, whatever
\* accepted model_name and whatever api_key it was given, and neither reaches the
\* client; but a non-empty api_key is still written to OLLAMA_API_KEY, so what the
\* call does to os.environ depends on the api_key.
C6_OllamaFixedClient ==
    \A t \in DOMAIN pc :
       (ReturnedClient(t) /\ frame[t].provider = Some("ollama")) =>
          /\ ret[t].value[1].cls = "ChatOllama"
          /\ DOMAIN ret[t].value[1].named = {"model", "base_url"}
          /\ ret[t].value[1].named["model"] = "llama3.1:8b-instruct-q8_0"
          /\ ret[t].value[1].named["base_url"] = "http://host.docker.internal:11434/v1"
          /\ ret[t].value[1].params = PlainParams(t)
          /\ (call[t].api_key # None /\ KeyOf(t) # "") =>
                ("OLLAMA_API_KEY" \in DOMAIN environ /\ environ["OLLAMA_API_KEY"] = KeyOf(t))

\* C6 witness: get_llm("mistral:7b", provider="ollama", api_key="sk-2") has returned
\* the client of the fixed model, and OLLAMA_API_KEY holds "sk-2".
C6_Witness ==
    \E t \in DOMAIN pc :
       /\ ReturnedClient(t)
       /\ call[t].model_name = "mistral:7b"
       /\ call[t].provider = Some("ollama")
       /\ call[t].api_key = Some("sk-2")
       /\ ret[t].value[1].named["model"] = OllamaModel
       /\ "OLLAMA_API_KEY" \in DOMAIN environ
       /\ environ["OLLAMA_API_KEY"] = "sk-2"

HasKey(t) == call[t].op = "get_llm" /\ call[t].api_key # None /\ KeyOf(t) # ""

\* C7: with two get_llm calls for "ollama" running at once, each write of a
\* non-empty key overwrites OLLAMA_API_KEY whatever it held, and nothing else
\* changes os.environ, so the last writer wins: once both calls have returned,
\* the variable holds the key of one of them, the one that wrote last.
C7_LastWriterWins ==
    /\ [](\A t, u \in DOMAIN pc :
             (t # u /\ ReturnedClient(t) /\ ReturnedClient(u) /\ HasKey(t) /\ HasKey(u)) =>
                /\ "OLLAMA_API_KEY" \in DOMAIN environ
                /\ environ["OLLAMA_API_KEY"] \in {KeyOf(t), KeyOf(u)})
    /\ [][/\ \A t \in DOMAIN pc :
                KeyWriteStep(t) =>
                   /\ "OLLAMA_API_KEY" \in DOMAIN environ'
                   /\ environ'["OLLAMA_API_KEY"] = KeyOf(t)
          /\ environ' # environ => \E t \in DOMAIN pc : KeyWriteStep(t)]_vars

\* C7 witness: thread 1, given "sk-1", has written its key and is about to construct
\* its client, while OLLAMA_API_KEY holds "sk-2", the key thread 2 wrote after it.
C7_Witness ==
    /\ DOMAIN pc = {1, 2}
    /\ pc[1] = "dispatch" /\ call[1].api_key = Some("sk-1")
    /\ pc[2] \in {"params", "dispatch"} /\ call[2].api_key = Some("sk-2")
    /\ frame[1].provider = frame[2].provider
    /\ environ["OLLAMA_API_KEY"] = "sk-2"

\* C8: get_all_models returns the catalog's lists one after the other, in the
\* order of the providers and, within a provider, in list order: as many entries
\* as the lists hold together, none dropped or moved; the catalog is unchanged.
C8_GetAllModelsFlattens ==
    \A t \in DOMAIN pc :
       Finished(t, "get_all_models") =>
          LET offset[i \in 0..Len(available_models)] ==
                 IF i = 0 THEN 0 ELSE offset[i - 1] + Len(available_models[i][2])
              all_models == ret[t].value
          IN  /\ IsReturn(ret[t])
              /\ Len(all_models) = offset[Len(available_models)]
              /\ \A i \in DOMAIN available_models :
                    \A j \in DOMAIN available_models[i][2] :
                       all_models[offset[i - 1] + j] = available_models[i][2][j]
              /\ available_models = << <<"ollama", <<"llama3.2:3b", "mistral:7b">> >> >>

\* C8 witness: get_all_models has returned the two models of the catalog.
C8_Witness ==
    \E t \in DOMAIN pc :
       /\ Finished(t, "get_all_models")
       /\ ret[t] = Return(<<"llama3.2:3b", "mistral:7b">>)

\* the provider thread t holds is a key of the catalog that lists the model name,
\* and, when the caller gave none, a pattern occurs in the lower-cased name
Accepted(t) ==
    /\ frame[t].provider # None
    /\ \E i \in DOMAIN available_models :
          /\ available_models[i][1] = frame[t].provider[1]
          /\ \E j \in DOMAIN available_models[i][2] :
                available_models[i][2][j] = call[t].model_name
    /\ call[t].provider = None => Hits(call[t].model_name) # {}

\* C9: get_llm detects, then validates, then writes the key, then constructs: the
\* key write, the parameter assembly and the dispatch are reached only by a call
\* that detection and validation accepted, and a step of detection or validation
\* writes no environment variable, prints nothing and returns no client; when it
\* raises, the call ends there with that error.
C9_FailBeforeEffects ==
    /\ [](\A t \in DOMAIN pc :
             (pc[t] \in {"set_key", "params", "dispatch"} \/ ReturnedClient(t)) => Accepted(t))
    /\ [](\A t \in DOMAIN pc :
             (Finished(t, "get_llm") /\ ~Accepted(t)) =>
                /\ ret[t].kind = "raise"
                /\ frame[t].model_params = EmptyDict)
    /\ [][\A t \in DOMAIN pc :
             pc[t] \in {"detect", "validate"} =>
                /\ environ' = environ
                /\ stdout' = stdout
                /\ ret'[t].kind \in {"pending", "raise"}
                /\ ret'[t].kind = "raise" => pc'[t] = "idle"
                /\ pc'[t] \in {"detect", "validate", "set_key", "idle"}
                /\ pc'[t] = "set_key" => pc[t] = "validate"]_vars

\* C9 witness: get_llm("llama3.2:3b", provider="openai", api_key="sk-1") has ended in
\* an error with os.environ empty and nothing printed.
C9_Witness ==
    \E t \in DOMAIN pc :
       /\ Finished(t, "get_llm")
       /\ call[t].model_name = "llama3.2:3b"
       /\ call[t].provider = Some("openai")
       /\ call[t].api_key = Some("sk-1")
       /\ ret[t].kind = "raise"
       /\ environ = EmptyDict
       /\ stdout = <<>>

====
